---- MODULE Spec2Model ----
(***************************************************************************)
(* A model of the compile-time checked state machine of fsm.hpp.           *)
(*                                                                         *)
(* A transition table is a std::variant of transition<Entry, Event, Next>  *)
(* types; here it is a sequence of records.  Types are modelled by their   *)
(* names (strings): std::is_same_v is equality of names.  The C++ code     *)
(* indexes variants from 0, TLA+ sequences from 1: variant_alternative     *)
(* does the shift and every index below is the C++ index.                  *)
(*                                                                         *)
(* The run-time part models the call stack of start / push / process and   *)
(* of the state actions they call: one frame per active start or process   *)
(* call, the frame on top being the state action that is running.          *)
(***************************************************************************)
EXTENDS Naturals, Sequences, FiniteSets

VARIABLES
    TransitionTable,  \* the table the machine is instantiated with
    terminal,         \* the state kinds for which is_terminal_state is specialised
    built,            \* "pending", "ok" or "rejected": the static_asserts' verdict
    m_state,          \* std::optional<states>: <<>> or <<value>>
    m_cb,             \* whether the Callback m_cb holds a target
    m_ctx,            \* the Context handed to the constructor
    stack,            \* active start/process calls, innermost last
    nctor,            \* state values constructed so far
    npush,            \* push calls so far
    nstart,           \* start calls so far
    last,             \* what the most recent push call did
    cb_calls,         \* m_cb invocations since the live state value was stored
    calls,            \* calls[n]: who made push call n, and the push calls active then
    returned          \* the push calls that have returned

vars == <<TransitionTable, terminal, built, m_state, m_cb, m_ctx, stack, nctor, npush,
          nstart, last, cb_calls, calls, returned>>

(* ------------------------------ bounds -------------------------------- *)

\* longest transition table drawn
MaxTable == 2
\* start and push calls per run
MaxCalls == 4

\* the state and event types tables are drawn over
StateKinds == {"A", "B"}
EventKinds == {"e1", "e2"}

Transitions == [entry_state : StateKinds, event : EventKinds, next_state : StateKinds]
Tables == UNION {[1..n -> Transitions] : n \in 0..MaxTable}

(* --------------------------- std::variant ----------------------------- *)

variant_size(V) == Len(V)
variant_alternative(index, V) == V[index + 1]

(* ------------------------------ matcher ------------------------------- *)

\* a comparison that looks at the event only
equals_event_only(T, U, V) == T.event = V

equals(T, U, V) == (T.entry_state = U) /\ (T.event = V)

\* a matcher that keeps scanning after a hit: the last declared transition wins
match_last(VariantType, U, V, index) ==
    LET hits == {i \in index..(variant_size(VariantType) - 1) :
                    equals(variant_alternative(i, VariantType), U, V)}
    IN  IF hits = {} THEN variant_size(VariantType)
        ELSE CHOOSE i \in hits : \A j \in hits : j <= i

RECURSIVE match(_, _, _, _)
match(VariantType, U, V, index) ==
    IF index = variant_size(VariantType) THEN index
    ELSE IF equals(variant_alternative(index, VariantType), U, V) THEN index
    ELSE match(VariantType, U, V, index + 1)

(* ----------------------------- derivation ----------------------------- *)

\* a derivation that forgets the next_state column
extract_states_entry_only(TT) == [i \in 1..Len(TT) |-> TT[i].entry_state]

extract_states(TT) ==
    [i \in 1..Len(TT) |-> TT[i].entry_state] \o [i \in 1..Len(TT) |-> TT[i].next_state]

extract_events(TT) == [i \in 1..Len(TT) |-> TT[i].event]

\* TET<N, T>, N counted from 0
TET(N, T) == T[N + 1]

\* a deduplication with the index comparison turned round: the last occurrence
\* of each kind is kept
remove_duplicates_pack_last(N, T) ==
    IF \E Is \in 0..(Len(T) - 1) : N < Is /\ TET(N, T) = TET(Is, T)
    THEN <<>>
    ELSE <<TET(N, T)>>

remove_duplicates_pack_first(N, T) ==
    IF \E Is \in 0..(Len(T) - 1) : N > Is /\ TET(N, T) = TET(Is, T)
    THEN <<>>
    ELSE <<TET(N, T)>>

RECURSIVE tuple_cat_from(_, _)
tuple_cat_from(T, N) ==
    IF N = Len(T) THEN <<>>
    ELSE remove_duplicates_pack_first(N, T) \o tuple_cat_from(T, N + 1)

remove_duplicates_t(T) == tuple_cat_from(T, 0)

states == remove_duplicates_t(extract_states(TransitionTable))
events == remove_duplicates_t(extract_events(TransitionTable))

(* ------------------------ completeness checker ------------------------ *)

is_terminal_state(T) == T \in terminal

\* a checker that compares the entry state only, not the event
has_transition_any_event(State, Event, Table, index) ==
    \E i \in index..(variant_size(Table) - 1) :
        variant_alternative(i, Table).entry_state = State

RECURSIVE has_transition(_, _, _, _)
has_transition(State, Event, Table, index) ==
    IF index = variant_size(Table) THEN FALSE
    ELSE IF equals(variant_alternative(index, Table), State, Event) THEN TRUE
    ELSE has_transition(State, Event, Table, index + 1)

RECURSIVE check_state_complete(_, _, _, _)
check_state_complete(State, EventList, Table, index) ==
    IF is_terminal_state(State) THEN TRUE
    ELSE IF index = variant_size(EventList) THEN TRUE
    ELSE IF ~has_transition(State, variant_alternative(index, EventList), Table, 0)
         THEN FALSE
         ELSE check_state_complete(State, EventList, Table, index + 1)

RECURSIVE check_all_transitions(_, _, _, _)
check_all_transitions(StateList, EventList, Table, index) ==
    IF index = variant_size(StateList) THEN TRUE
    ELSE IF ~check_state_complete(variant_alternative(index, StateList), EventList, Table, 0)
         THEN FALSE
         ELSE check_all_transitions(StateList, EventList, Table, index + 1)

state_count == variant_size(TransitionTable)

\* static_assert(state_count > 1, "no state transitions in table")
size_assert == state_count > 1

\* static_assert(detail::check_all_transitions<states, events, TransitionTable>(), ...)
completeness_assert == check_all_transitions(states, events, TransitionTable, 0)

\* the two static_asserts of state_machine
static_asserts ==
    /\ size_assert
    /\ completeness_assert

\* what the failed completeness assert reports: its string literal, and no state
incomplete_diagnostic ==
    [text |-> "ERROR: Incomplete transition table! Some states are missing transitions for certain events.",
     state |-> "none"]

(* ------------------------------- Init --------------------------------- *)

NoPush == [n |-> 0, from |-> "", event |-> "", index |-> 0, result |-> "none",
           report |-> "", cb |-> FALSE, before |-> <<>>, after |-> <<>>]

Init ==
    /\ TransitionTable \in Tables
    /\ terminal \in SUBSET StateKinds
    /\ built = "pending"
    /\ m_state = <<>>
    /\ m_cb \in BOOLEAN
    /\ m_ctx = "c"
    /\ stack = <<>>
    /\ nctor = 0
    /\ npush = 0
    /\ nstart = 0
    /\ last = NoPush
    /\ cb_calls = 0
    /\ calls = <<>>
    /\ returned = {}

(* ----------------------------- operations ----------------------------- *)

\* instantiating state_machine<TransitionTable, Context> evaluates the static_asserts
Instantiate ==
    /\ built = "pending"
    /\ built' = IF static_asserts THEN "ok" ELSE "rejected"
    /\ UNCHANGED <<m_ctx, TransitionTable, terminal, m_state, m_cb, stack, nctor, npush,
                   nstart, last, cb_calls, calls, returned>>

\* a state value: its type and which construction produced it
StateValue(kind) == [kind |-> kind, serial |-> nctor + 1, ctx |-> m_ctx]

\* a process that posts the action instead of calling it: it runs only after
\* everything now on the call stack has returned
call_action_deferred(stk, frame) == <<frame>> \o stk

\* calling a state's operator() from start or process: a new innermost frame
call_action(stk, frame) == Append(stk, frame)

\* a process that assigns m_state without saving the value it held
exchange_discard(old) == <<>>

\* auto prev = std::exchange(m_state, next_state_t(m_ctx)): what prev holds
exchange_prev(old) == old

\* a no-transition branch that resets the state slot
no_transition_reset(old) == <<>>

\* the state slot after push took its no-transition branch
no_transition_state(old) == old

\* start<StartState>(args...)
start(StartState) ==
    /\ built = "ok"
    /\ stack = <<>>
    /\ m_state' = <<StateValue(StartState)>>
    /\ stack' = call_action(stack, [fn |-> "start", prev |-> <<>>,
                                    self |-> StateValue(StartState),
                                    emitted |-> 0, id |-> 0])
    /\ nctor' = nctor + 1
    /\ nstart' = nstart + 1
    /\ cb_calls' = 0
    /\ UNCHANGED <<m_ctx, TransitionTable, terminal, built, m_cb, npush, last, calls, returned>>

\* push(evt), called with call stack stk by the action entered by push par
push(evt, stk, par) ==
    LET current_state_type == m_state[1].kind
        index == match(TransitionTable, current_state_type, evt, 0)
        n == npush + 1
    IN  /\ npush' = n
        /\ calls' = Append(calls, [by |-> par, active |-> (1..npush) \ returned])
        /\ IF variant_size(TransitionTable) > index
           THEN \* process(current_state, evt)
                LET next_state_t == variant_alternative(index, TransitionTable).next_state
                    next == StateValue(next_state_t)
                IN  /\ m_state' = <<next>>
                    /\ stack' = call_action(stk, [fn |-> "process",
                                                  prev |-> exchange_prev(m_state),
                                                  self |-> next,
                                                  emitted |-> 0, id |-> n])
                    /\ nctor' = nctor + 1
                    /\ cb_calls' = 0
                    /\ returned' = returned
                    /\ last' = [n |-> n, from |-> current_state_type, event |-> evt,
                                index |-> index, result |-> "process",
                                report |-> "transition", cb |-> FALSE,
                                before |-> m_state, after |-> <<next>>]
           ELSE \* printf("no transition for ..."); if (m_cb) m_cb({});
                /\ m_state' = no_transition_state(m_state)
                /\ stack' = stk
                /\ nctor' = nctor
                /\ cb_calls' = IF m_cb THEN cb_calls + 1 ELSE cb_calls
                /\ returned' = returned \cup {n}
                /\ last' = [n |-> n, from |-> current_state_type, event |-> evt,
                            index |-> index, result |-> "norule",
                            report |-> "no transition", cb |-> m_cb,
                            before |-> m_state, after |-> no_transition_state(m_state)]
        /\ UNCHANGED <<m_ctx, TransitionTable, terminal, built, m_cb, nstart>>

\* start<StartState>(args...), within the bound on calls
Start(StartState) ==
    /\ nstart + npush < MaxCalls
    /\ start(StartState)

\* the running state action invokes the continuation it was given: cb(evt)
Emit(evt) ==
    /\ stack # <<>>
    /\ nstart + npush < MaxCalls
    /\ push(evt, [stack EXCEPT ![Len(stack)].emitted = @ + 1], stack[Len(stack)].id)

\* push(evt) from outside any state action (a derived class, a kept continuation)
ExternalPush(evt) ==
    /\ stack = <<>>
    /\ m_state # <<>>
    /\ nstart + npush < MaxCalls
    /\ push(evt, stack, 0)

\* the running state action returns, and with it the start or process call (and,
\* for process, the push call) that ran it; process's local prev is destroyed
Return ==
    /\ stack # <<>>
    /\ stack' = SubSeq(stack, 1, Len(stack) - 1)
    /\ returned' = IF stack[Len(stack)].fn = "process"
                   THEN returned \cup {stack[Len(stack)].id}
                   ELSE returned
    /\ UNCHANGED <<m_ctx, TransitionTable, terminal, built, m_state, m_cb, nctor, npush,
                   nstart, last, cb_calls, calls>>

SetOf(seq) == {seq[i] : i \in 1..Len(seq)}

Next ==
    \/ Instantiate
    \/ \E StartState \in SetOf(states) : Start(StartState)
    \/ \E evt \in EventKinds : Emit(evt)
    \/ \E evt \in EventKinds : ExternalPush(evt)
    \/ Return

Spec == Init /\ [][Next]_vars

(* ------------------------------ the table ----------------------------- *)

\* what the table declares, read off the table directly
DeclaredStates ==
    {TransitionTable[i].entry_state : i \in 1..Len(TransitionTable)}
        \cup {TransitionTable[i].next_state : i \in 1..Len(TransitionTable)}
DeclaredEvents == {TransitionTable[i].event : i \in 1..Len(TransitionTable)}
Declared(s, e) ==
    \E i \in 1..Len(TransitionTable) :
        TransitionTable[i].entry_state = s /\ TransitionTable[i].event = e
EveryPairCovered ==
    \A s \in DeclaredStates \ terminal : \A e \in DeclaredEvents : Declared(s, e)

Top == stack[Len(stack)]
ProcessFrames == {i \in 1..Len(stack) : stack[i].fn = "process"}

(* ------------------- instantiation alone, wider tables ----------------- *)

\* longest transition table drawn when only the class is instantiated
MaxGateTable == 2

GateStateKinds == {"A", "B", "C"}
GateTransitions ==
    [entry_state : GateStateKinds, event : EventKinds, next_state : GateStateKinds]
GateTables == UNION {[1..n -> GateTransitions] : n \in 0..MaxGateTable}

InitGate ==
    /\ TransitionTable \in GateTables
    /\ terminal \in SUBSET GateStateKinds
    /\ built = "pending"
    /\ m_state = <<>>
    /\ m_cb = FALSE
    /\ m_ctx = "c"
    /\ stack = <<>>
    /\ nctor = 0
    /\ npush = 0
    /\ nstart = 0
    /\ last = NoPush
    /\ cb_calls = 0
    /\ calls = <<>>
    /\ returned = {}

SpecGate == InitGate /\ [][Instantiate]_vars

(* ------------------------ the repository's machine -------------------- *)

\* start and push calls made from outside per run of the repository's machine
MaxDemoCalls == 12

\* success<sock> and exception (std::runtime_error)
DemoEvents == {"success_sock", "exception"}

transitions == <<
    [entry_state |-> "start",      event |-> "success_sock", next_state |-> "connecting"],
    [entry_state |-> "start",      event |-> "exception",    next_state |-> "failed"],
    [entry_state |-> "connecting", event |-> "success_sock", next_state |-> "connected"],
    [entry_state |-> "connecting", event |-> "exception",    next_state |-> "failed"],
    [entry_state |-> "connected",  event |-> "exception",    next_state |-> "failed"] >>

\* the is_terminal_state specialisations
terminal_states == {"failed", "disconnected", "connected"}

\* connected::operator() reporting success again instead of a disconnect
state_action_stays_connected(kind) ==
    IF kind = "failed" THEN "exception" ELSE "success_sock"

\* connecting::operator() reporting a failed connect
state_action_connect_fails(kind) ==
    IF kind = "start" THEN "success_sock" ELSE "exception"

\* the event each state's operator() hands to its continuation, once:
\* start emits success<int>(42), connecting the success it was given, connected a
\* runtime_error, failed the exception it was given
state_action(kind) ==
    CASE kind = "start"      -> "success_sock"
      [] kind = "connecting" -> "success_sock"
      [] kind = "connected"  -> "exception"
      [] kind = "failed"     -> "exception"

InitDemo ==
    /\ TransitionTable = transitions
    /\ terminal = terminal_states
    /\ built = "pending"
    /\ m_state = <<>>
    /\ m_cb = FALSE
    /\ m_ctx = "c"
    /\ stack = <<>>
    /\ nctor = 0
    /\ npush = 0
    /\ nstart = 0
    /\ last = NoPush
    /\ cb_calls = 0
    /\ calls = <<>>
    /\ returned = {}

\* fsm.start<start>("10.0.0.50", "user", "pass")
StartDemo ==
    /\ nstart + npush < MaxDemoCalls
    /\ start("start")

\* the running state's operator() calls cb(...)
ActionEmits ==
    /\ stack # <<>>
    /\ Top.emitted = 0
    /\ push(state_action(Top.self.kind),
            [stack EXCEPT ![Len(stack)].emitted = @ + 1], Top.id)

\* the running state's operator() returns after its one call of cb
ActionReturns ==
    /\ stack # <<>>
    /\ Top.emitted = 1
    /\ Return

\* push(evt) on the repository's machine from outside any state action
ExternalPushDemo(evt) ==
    /\ stack = <<>>
    /\ m_state # <<>>
    /\ nstart + npush < MaxDemoCalls
    /\ push(evt, stack, 0)

NextDemo ==
    \/ Instantiate
    \/ StartDemo
    \/ ActionEmits
    \/ ActionReturns
    \/ \E evt \in DemoEvents : ExternalPushDemo(evt)

\* a state action, once called, runs on the caller's thread until it returns
SpecDemo == InitDemo /\ [][NextDemo]_vars /\ WF_vars(ActionEmits \/ ActionReturns)

\* the repository's table and state types, the state actions left open: an
\* action may call its continuation with either event, any number of times
NextDemoTable ==
    \/ Instantiate
    \/ Start("start")
    \/ \E evt \in DemoEvents : Emit(evt)
    \/ \E evt \in DemoEvents : ExternalPush(evt)
    \/ Return

SpecDemoTable == InitDemo /\ [][NextDemoTable]_vars

(* ------------------------------- claims ------------------------------- *)

\* C1: a non-empty table is accepted by the static_asserts if and only if every
\* non-terminal declared state has a transition for every declared event.
\* (Stated as claimed; the size assert rejects a covered one-transition table.)
C1_ConstructionGate ==
    (built # "pending" /\ Len(TransitionTable) >= 1)
        => ((built = "ok") <=> EveryPairCovered)

\* C2: in an accepted machine, a push of a declared event while the live state is
\* not terminal never takes the no-transition branch.
C2_RuntimeExhaustive ==
    (last.result = "norule")
        => (last.from \in terminal \/ last.event \notin DeclaredEvents)

\* a nested push of a declared event on a non-terminal state found its transition
C2_Witness ==
    /\ last.result = "process"
    /\ last.n >= 2
    /\ last.from \notin terminal
    /\ last.event \in DeclaredEvents
    /\ Len(stack) >= 3

\* C3 as claimed: every push while the live state is terminal is a no-op on the
\* live state, also when the table declares a transition out of that state.
C3_TerminalAbsorption ==
    (last.result # "none" /\ last.from \in terminal)
        => (last.result = "norule" /\ last.after = last.before)

\* C3 amended: a push while the live state is terminal is a no-op on the live
\* state exactly when the table declares no transition for (that state, event);
\* when it declares one, the push takes it and a new state value is stored.
C3_TerminalAbsorptionAmended ==
    (last.result # "none" /\ last.from \in terminal)
        => IF Declared(last.from, last.event)
           THEN last.result = "process" /\ last.after # last.before
           ELSE last.result = "norule" /\ last.after = last.before
                    /\ Len(last.after) = 1

\* a second push in a row left a terminal live state as it was
C3_Witness ==
    /\ last.result = "norule"
    /\ last.from \in terminal
    /\ last.n >= 2
    /\ m_state = last.before
    /\ \E e \in EventKinds : Declared(last.from, e)

\* C4: the state slot is empty exactly before the first start; from then on it
\* holds one state value whose type is one of the derived states.
C4_SingleActiveState ==
    /\ (nstart = 0) <=> (m_state = <<>>)
    /\ (nstart > 0) => (Len(m_state) = 1 /\ m_state[1].kind \in SetOf(states))

\* inside a push nested in a state action, the slot holds a state that occurs in
\* the table only as a next_state
C4_Witness ==
    /\ Len(stack) >= 3
    /\ Len(m_state) = 1
    /\ \A i \in 1..Len(TransitionTable) :
            TransitionTable[i].entry_state # m_state[1].kind

\* C5: a push that finds a transition takes the first one in declaration order
\* whose (entry_state, event) is (live state, event), and the live state becomes
\* a value of that transition's next_state.
C5_FirstMatch ==
    (last.result = "process")
        => LET hits == {i \in 1..Len(TransitionTable) :
                            /\ TransitionTable[i].entry_state = last.from
                            /\ TransitionTable[i].event = last.event}
           IN  /\ hits # {}
               /\ \A j \in hits : last.index + 1 <= j
               /\ last.index + 1 \in hits
               /\ last.after[1].kind = TransitionTable[last.index + 1].next_state
               /\ (stack # <<>> /\ Top.id = last.n /\ Top.emitted = 0)
                      => m_state = last.after

\* a repeated push resolved a (state, event) pair that the table declares twice,
\* with different next states
C5_Witness ==
    /\ last.result = "process"
    /\ last.n >= 2
    /\ \E j \in 1..Len(TransitionTable) :
            /\ j > last.index + 1
            /\ TransitionTable[j].entry_state = last.from
            /\ TransitionTable[j].event = last.event
            /\ TransitionTable[j].next_state # last.after[1].kind

\* C6 as claimed: a second start is rejected; the engine never executes start
\* (store a new state value, run its action) more than once.
C6_StartOnce == nstart <= 1

\* the state values the engine holds: the slot, and each active process call's prev
HeldValues ==
    Len(m_state) + Cardinality({i \in 1..Len(stack) : stack[i].prev # <<>>})

\* C7 as claimed: the previous state value is gone before the next state's action
\* begins, so the engine never holds more than one state value.
C7_AtMostOneValue == HeldValues <= 1

\* C7 amended: the slot holds exactly one value, already the next state's when
\* its action begins; the value it replaced is kept in prev by every process
\* call still active, so the engine holds one value more per active process.
C7_PrevKeptWhileActionRuns ==
    (nstart > 0)
        => /\ Len(m_state) = 1
           /\ \A i \in ProcessFrames :
                  /\ Len(stack[i].prev) = 1
                  /\ stack[i].prev[1].serial < stack[i].self.serial
           /\ HeldValues = 1 + Cardinality(ProcessFrames)
           /\ (stack # <<>> /\ Top.emitted = 0) => m_state = <<Top.self>>

\* two nested transitions are being resolved: three state values are held
C7_Witness ==
    /\ Cardinality(ProcessFrames) >= 2
    /\ HeldValues = 3
    /\ Top.emitted = 0

\* C8 as claimed: while the live state stays the same terminal state, a configured
\* completion callback has been invoked at most once.
C8_CompletionOnce ==
    (m_cb /\ m_state # <<>> /\ m_state[1].kind \in terminal) => cb_calls <= 1

\* C9 as claimed: a push that finds no transition while the live state is not
\* terminal reports a logic violation and does not invoke the completion callback.
C9_NoRuleNonTerminalDistinct ==
    (last.result = "norule" /\ last.from \notin terminal)
        => (last.report = "logic violation" /\ ~last.cb)

RECURSIVE Ancestors(_)
\* the push calls that push n is nested in
Ancestors(n) ==
    IF calls[n].by = 0 THEN {}
    ELSE {calls[n].by} \cup Ancestors(calls[n].by)

\* C10: a push returns only after every push made by the state it entered has
\* returned; when a push is made, every earlier push has returned except the
\* ones it is nested in, and those are exactly the active process calls.
C10_DepthFirst ==
    /\ \A p \in returned : \A c \in 1..npush : calls[c].by = p => c \in returned
    /\ \A n \in 1..npush : calls[n].active = Ancestors(n)
    /\ (1..npush) \ returned = {stack[i].id : i \in ProcessFrames}
    /\ \A i \in ProcessFrames :
            calls[stack[i].id].by = IF i = 1 THEN 0 ELSE stack[i - 1].id

\* the start action's first event entered a state whose own event was resolved
\* and returned before the start action emitted its second event
C10_Witness ==
    /\ npush = 3
    /\ calls[1].by = 0 /\ calls[2].by = 1 /\ calls[3].by = 0
    /\ calls[3].active = {}
    /\ returned = {1, 2}
    /\ last.result = "process"
    /\ Len(stack) = 2

\* the first start call returns
FirstStartReturns ==
    /\ nstart = 1
    /\ Len(stack) = 1
    /\ stack[1].fn = "start"
    /\ stack' = <<>>

\* a push of success<sock> is made from outside any state action
ExplicitSuccess ==
    /\ stack = <<>>
    /\ npush' = npush + 1
    /\ last'.event = "success_sock"

\* C11 as claimed: with the repository's table and actions, start<start> leaves
\* the machine in connecting, and an explicit push of success then moves it to
\* connected.
C11_StartRestsInConnecting ==
    [][/\ FirstStartReturns => m_state'[1].kind = "connecting"
       /\ (ExplicitSuccess /\ m_state[1].kind = "connecting")
              => m_state'[1].kind = "connected"]_vars

\* C11 amended: start's event moves the machine to connecting without outside
\* input, but connecting's and connected's actions emit at once, so the live
\* state is failed when start returns; an explicit push of success then finds
\* no transition and leaves it failed.
C11_StartChainsThroughConnecting ==
    [][/\ (stack # <<>> /\ Top.fn = "start" /\ npush' = npush + 1)
              => /\ last'.from = "start" /\ last'.event = "success_sock"
                 /\ last'.result = "process"
                 /\ m_state'[1].kind = "connecting"
       /\ FirstStartReturns => m_state'[1].kind = "failed"
       /\ ExplicitSuccess
              => /\ m_state[1].kind = "failed"
                 /\ last'.result = "norule"
                 /\ m_state' = m_state]_vars

\* start has returned and one explicit push of success has been made
C11_Witness ==
    /\ nstart = 1
    /\ stack = <<>>
    /\ npush = 5
    /\ last.n = 5 /\ last.event = "success_sock" /\ last.result = "norule"
    /\ m_state[1].kind = "failed"

\* C12: with the repository's table, a push of exception while the live state is
\* connecting stores a failed value and runs its action; every push while the
\* live state is failed leaves that value in place and runs no action.
C12_FailureRouting ==
    [][(npush' = npush + 1)
          => /\ (m_state[1].kind = "connecting" /\ last'.event = "exception")
                    => /\ m_state'[1].kind = "failed"
                       /\ Len(stack') > 0
                       /\ stack'[Len(stack')].fn = "process"
                       /\ stack'[Len(stack')].self = m_state'[1]
                       /\ stack'[Len(stack')].emitted = 0
                       /\ last'.result = "process"
             /\ (m_state[1].kind = "failed")
                    => /\ m_state' = m_state
                       /\ last'.result = "norule"
                       /\ Len(stack') = Len(stack)]_vars

\* connecting was left on an exception, and the failed state's own push changed
\* nothing
C12_Witness ==
    /\ Len(stack) = 3
    /\ stack[3].prev # <<>>
    /\ stack[3].prev[1].kind = "connecting"
    /\ stack[3].self.kind = "failed"
    /\ stack[3].emitted = 1
    /\ last.from = "failed" /\ last.result = "norule"
    /\ m_state = <<stack[3].self>>

\* C13 as claimed: the size assert fails for the empty table only.
C13_SizeGate ==
    (built = "rejected" /\ ~size_assert) => Len(TransitionTable) = 0

\* the non-terminal declared states that lack a transition for a declared event
MissingStates ==
    {s \in DeclaredStates \ terminal : \E e \in DeclaredEvents : ~Declared(s, e)}

\* C14 as claimed: when the completeness assert fails, the error names a state
\* that is missing a transition.
C14_ErrorNamesState ==
    (built = "rejected" /\ ~completeness_assert)
        => incomplete_diagnostic.state \in MissingStates

NoDuplicates(seq) == \A i, j \in 1..Len(seq) : seq[i] = seq[j] => i = j

\* C15: the derived states are the kinds in an entry_state or next_state position,
\* each once; the derived events are the kinds in an event position, each once.
C15_DerivedSets ==
    (built # "pending")
        => /\ SetOf(states) = DeclaredStates
           /\ NoDuplicates(states)
           /\ SetOf(events) = DeclaredEvents
           /\ NoDuplicates(events)

\* a table with a state that is only ever left, a state that is only ever
\* entered, and repeated kinds in both columns
C15_Witness ==
    /\ built # "pending"
    /\ Len(TransitionTable) = 2
    /\ \E s \in SetOf(states) :
            \A i \in 1..Len(TransitionTable) : TransitionTable[i].next_state # s
    /\ \E s \in SetOf(states) :
            \A i \in 1..Len(TransitionTable) : TransitionTable[i].entry_state # s
    /\ Len(states) = 2
    /\ Len(events) = 1

\* the positions of a list that hold the first occurrence of their kind
FirstPositions(L) == {n \in 1..Len(L) : \A m \in 1..(n - 1) : L[m] # L[n]}

\* R is L cut down to its first occurrences, in L's order
IsFirstOccurrences(R, L) ==
    /\ Len(R) = Cardinality(FirstPositions(L))
    /\ \A k \in 1..Len(R) :
           \E n \in FirstPositions(L) :
               /\ Cardinality({m \in FirstPositions(L) : m <= n}) = k
               /\ R[k] = L[n]

\* C16: remove_duplicates_t returns the subsequence of first occurrences of its
\* input, for the state list and the event list of every table.
C16_OrderStableDedup ==
    (built # "pending")
        => /\ IsFirstOccurrences(states, extract_states(TransitionTable))
           /\ IsFirstOccurrences(events, extract_events(TransitionTable))

\* an input B, A, ., B: the kind met first is met again after another kind
C16_Witness ==
    /\ built # "pending"
    /\ LET L == extract_states(TransitionTable)
       IN  /\ Len(L) = 4
           /\ L[1] = L[4] /\ L[2] # L[1] /\ L[3] # L[1] /\ L[3] # L[2]
           /\ states = <<L[1], L[2], L[3]>>

\* C17: for every state kind and event kind, the checker's has_transition is true
\* exactly when the matcher's index is below the table size.
C17_CheckerMatcherAgree ==
    \A s \in GateStateKinds : \A e \in EventKinds :
        has_transition(s, e, TransitionTable, 0)
            <=> (match(TransitionTable, s, e, 0) < variant_size(TransitionTable))

\* an instantiated table in which a pair is found at the second position and
\* another pair with a declared state and a declared event is not found
C17_Witness ==
    /\ built # "pending"
    /\ \E s \in DeclaredStates : \E e \in DeclaredEvents :
            match(TransitionTable, s, e, 0) = 1
    /\ \E s \in DeclaredStates : \E e \in DeclaredEvents :
            ~has_transition(s, e, TransitionTable, 0)

\* C18: a push that finds no declared transition for (live state kind, event
\* kind), terminal or not, leaves the live state value and the context as they
\* were, constructs no state and enters no state action.
C18_NoMatchUnchanged ==
    [][(npush' = npush + 1 /\ ~Declared(m_state[1].kind, last'.event))
          => /\ m_state' = m_state
             /\ m_ctx' = m_ctx
             /\ nctor' = nctor
             /\ Len(stack') = Len(stack)
             /\ \A i \in 1..Len(stack) :
                    /\ stack'[i].fn = stack[i].fn
                    /\ stack'[i].self = stack[i].self
                    /\ stack'[i].id = stack[i].id]_vars

\* a running action of a non-terminal state pushed an event its state declares
\* no transition for, and the state value it runs on is still the live one
C18_Witness ==
    /\ stack # <<>>
    /\ last.n = npush
    /\ last.result = "norule"
    /\ last.from \notin terminal
    /\ ~Declared(last.from, last.event)
    /\ Top.emitted = 1
    /\ m_state = <<Top.self>>
    /\ nctor = Len(stack)

\* C19: when a running state action invokes its continuation for the first
\* time, the live state is the value that action runs on, so the event is
\* matched against its emitter.
C19_EmitterIsLive ==
    [][(npush' = npush + 1 /\ stack # <<>> /\ Top.emitted = 0)
          => /\ m_state = <<Top.self>>
             /\ last'.before = <<Top.self>>
             /\ last'.from = Top.self.kind
             /\ last'.index = match(TransitionTable, Top.self.kind, last'.event, 0)]_vars

\* two nested first emissions: the outer action's event entered the inner
\* state, and the inner action's event was matched against the inner state
C19_Witness ==
    /\ Len(stack) = 3
    /\ stack[1].emitted = 1 /\ stack[2].emitted = 1 /\ stack[3].emitted = 0
    /\ stack[3].prev = <<stack[2].self>>
    /\ stack[2].self.kind # stack[1].self.kind
    /\ last.before = <<stack[2].self>>
    /\ last.from = stack[2].self.kind
    /\ last.result = "process"

\* the states the repository's machine passes through, in order of construction
ShippedChain == <<"start", "connecting", "connected", "failed">>

\* the one call start<start>(...) is running
ShippedStartRunning ==
    /\ nstart = 1
    /\ stack # <<>>

\* the one call start<start>(...) has returned and nothing was pushed since
ShippedStartReturned ==
    /\ nstart = 1
    /\ stack = <<>>
    /\ npush = Len(ShippedChain)

\* C20: with the repository's table and state actions, the one call
\* start<start>(...) eventually returns; the states constructed while it runs
\* are start, connecting, connected, failed, in that order and no others; when
\* it returns the live state is failed and the last push, failed's re-emitted
\* exception, found no transition.
C20_ShippedTerminates ==
    /\ [](ShippedStartRunning
            => /\ Len(stack) <= Len(ShippedChain)
               /\ nctor <= Len(ShippedChain)
               /\ \A i \in 1..Len(stack) :
                      /\ stack[i].self.kind = ShippedChain[i]
                      /\ stack[i].self.serial = i
                      /\ stack[i].fn = (IF i = 1 THEN "start" ELSE "process"))
    /\ ShippedStartRunning
          ~> /\ ShippedStartReturned
             /\ nctor = Len(ShippedChain)
             /\ m_state[1].kind = "failed"
             /\ m_state[1].serial = Len(ShippedChain)
             /\ last.n = Len(ShippedChain)
             /\ last.from = "failed"
             /\ last.event = "exception"
             /\ last.result = "norule"

\* start<start>(...) has just returned, four pushes after it was called
C20_Witness ==
    /\ ShippedStartReturned
    /\ nctor = 4
    /\ m_state[1].kind = "failed"
    /\ last.result = "norule"
    /\ returned = 1..4

====
